---------------------------- MODULE Spec2Model ----------------------------
(***************************************************************************)
(* A state-machine model of the Sony IMX415 V4L2 sensor driver             *)
(* (modules/imx415/imx415.c): the device session, its controls, the        *)
(* streaming state machine, the power sequencer and the register access    *)
(* port, together with the runtime-PM core and the V4L2 control framework  *)
(* as far as the driver's calls into them decide what the driver does.     *)
(*                                                                         *)
(* Every handler of the driver is one action.  The I2C bus and the clock   *)
(* and regulator primitives may fail: each action draws, with \E, the set  *)
(* of bus transactions of the call that fail and the power steps that      *)
(* fail.  `wlog' holds the bus transactions issued by the last operation,  *)
(* `op'/`arg'/`ret' name that operation, its argument and what it          *)
(* returned.                                                               *)
(***************************************************************************)
EXTENDS Integers, Sequences, FiniteSets, TLC

VARIABLES
    life,        \* "unbound" | "bound" | "failed" | "removed"
    nlanes,      \* imx415->nlanes
    cur_mode,    \* imx415->cur_mode: index into supported_modes, 0 = NULL
    cur_vts,     \* imx415->cur_vts
    streaming,   \* imx415->streaming
    vblank,      \* imx415->vblank:   [min, max, def, val]
    exposure,    \* imx415->exposure: [min, max, def, val]
    hblank,      \* imx415->hblank:   [min, max, def, val]
    anal_a_gain, \* imx415->anal_a_gain: [min, max, def, val]
    hflip,       \* imx415->hflip:    [min, max, def, val]
    vflip,       \* imx415->vflip:    [min, max, def, val]
    pm,          \* runtime PM of client->dev: [usage, status, error, request]
    hw,          \* [clk, sup, rst]: enable counts of xclk and supplies, reset line
    wlog,        \* bus transactions of the last operation
    op, arg, ret, \* the last operation, its argument, its return value
    thr          \* imx415->lock and the calls in progress on other threads:
                 \* [lock, pc, mode, stale]

vars == << life, nlanes, cur_mode, cur_vts, streaming, vblank, exposure,
           hblank, anal_a_gain, hflip, vflip, pm, hw, wlog, op, arg,
           ret, thr >>

-----------------------------------------------------------------------------
(* Register map and constants, imx415.c:35-123 *)

IMX415_REG_CHIP_ID      == \H311A
IMX415_CHIP_ID          == \HE0
IMX415_REG_STANDBY      == \H3000
IMX415_REG_LANE_MODE    == \H4001
IMX415_LF_GAIN_REG_H    == \H3091
IMX415_LF_GAIN_REG_L    == \H3090
IMX415_LF_EXPO_REG_H    == \H3052
IMX415_LF_EXPO_REG_M    == \H3051
IMX415_LF_EXPO_REG_L    == \H3050
IMX415_VTS_REG_L        == \H3024
IMX415_VTS_REG_M        == \H3025
IMX415_VTS_REG_H        == \H3026
IMX415_FLIP_REG         == \H3030
IMX415_GROUP_HOLD_REG   == \H3001
REG_NULL                == \HFFFF
IMX415_EXPOSURE_MIN     == 8
IMX415_EXPOSURE_STEP    == 1
IMX415_VTS_MAX          == \H7FFF
IMX415_GAIN_MIN         == 0
IMX415_GAIN_MAX         == \HF0
IMX415_GAIN_DEFAULT     == 0
IMX415_REG_VALUE_08BIT  == 1
IMX415_MIRROR_BIT_MASK  == 1
IMX415_FLIP_BIT_MASK    == 2
IMX415_PIXEL_ARRAY_WIDTH  == 3864
IMX415_PIXEL_ARRAY_HEIGHT == 2192
MEDIA_BUS_FMT_SGBRG10_1X10 == \H300E

\* errno values returned by the driver
EIO    == 5
EINVAL == 22

imx415_common_regs ==
    << <<\H32D4, \H21>>, <<\H32EC, \HA1>>, <<\H3452, \H7F>>, <<\H3453, \H03>>,
       <<\H358A, \H04>>, <<\H35A1, \H02>>, <<\H36BC, \H0C>>, <<\H36CC, \H53>>,
       <<\H36CD, \H00>>, <<\H36CE, \H3C>>, <<\H36D0, \H8C>>, <<\H36D1, \H00>>,
       <<\H36D2, \H71>>, <<\H36D4, \H3C>>, <<\H36D6, \H53>>, <<\H36D7, \H00>>,
       <<\H36D8, \H71>>, <<\H36DA, \H8C>>, <<\H36DB, \H00>>, <<\H3701, \H00>>,
       <<\H3724, \H02>>, <<\H3726, \H02>>, <<\H3732, \H02>>, <<\H3734, \H03>>,
       <<\H3736, \H03>>, <<\H3742, \H03>>, <<\H3862, \HE0>>, <<\H38CC, \H30>>,
       <<\H38CD, \H2F>>, <<\H395C, \H0C>>, <<\H3A42, \HD1>>, <<\H3A4C, \H77>>,
       <<\H3AE0, \H02>>, <<\H3AEC, \H0C>>, <<\H3B00, \H2E>>, <<\H3B06, \H29>>,
       <<\H3B98, \H25>>, <<\H3B99, \H21>>, <<\H3B9B, \H13>>, <<\H3B9C, \H13>>,
       <<\H3B9D, \H13>>, <<\H3B9E, \H13>>, <<\H3BA1, \H00>>, <<\H3BA2, \H06>>,
       <<\H3BA3, \H0B>>, <<\H3BA4, \H10>>, <<\H3BA5, \H14>>, <<\H3BA6, \H18>>,
       <<\H3BA7, \H1A>>, <<\H3BA8, \H1A>>, <<\H3BA9, \H1A>>, <<\H3BAC, \HED>>,
       <<\H3BAD, \H01>>, <<\H3BAE, \HF6>>, <<\H3BAF, \H02>>, <<\H3BB0, \HA2>>,
       <<\H3BB1, \H03>>, <<\H3BB2, \HE0>>, <<\H3BB3, \H03>>, <<\H3BB4, \HE0>>,
       <<\H3BB5, \H03>>, <<\H3BB6, \HE0>>, <<\H3BB7, \H03>>, <<\H3BB8, \HE0>>,
       <<\H3BBA, \HE0>>, <<\H3BBC, \HDA>>, <<\H3BBE, \H88>>, <<\H3BC0, \H44>>,
       <<\H3BC2, \H7B>>, <<\H3BC4, \HA2>>, <<\H3BC8, \HBD>>, <<\H3BCA, \HBD>> >>

imx415_linear_10bit_3864x2192_891M_regs ==
    << <<\H3002, \H00>>, <<\H3008, \H7F>>, <<\H300A, \H5B>>, <<\H3028, \H98>>,
       <<\H3029, \H08>>, <<\H3031, \H00>>, <<\H3032, \H00>>, <<\H3033, \H05>>,
       <<\H3050, \H08>>, <<\H30C1, \H00>>, <<\H3116, \H24>>, <<\H311E, \H24>>,
       <<\H4004, \H48>>, <<\H4005, \H09>>, <<\H400C, \H00>>, <<\H4018, \H7F>>,
       <<\H401A, \H37>>, <<\H401C, \H37>>, <<\H401E, \HF7>>, <<\H401F, \H00>>,
       <<\H4020, \H3F>>, <<\H4022, \H6F>>, <<\H4024, \H3F>>, <<\H4026, \H5F>>,
       <<\H4028, \H2F>>, <<\H4074, \H01>>, <<REG_NULL, \H00>> >>


(* Mode configs, imx415.c:356-373.  reg_list is the mode's table as it     *)
(* lies in memory, its REG_NULL entry included.                            *)
supported_modes ==
    << [ bus_fmt  |-> MEDIA_BUS_FMT_SGBRG10_1X10,
         bpp      |-> 10,
         width    |-> IMX415_PIXEL_ARRAY_WIDTH,
         height   |-> IMX415_PIXEL_ARRAY_HEIGHT,
         exp_def  |-> \H08FC - \H08,
         hts_def  |-> \H044C * 2 * 2,
         vts_def  |-> \H08FC,
         mipi_freq_idx |-> 0,
         reg_list |-> imx415_linear_10bit_3864x2192_891M_regs ] >>

-----------------------------------------------------------------------------
(* Bounds of the model *)

\* pm_runtime usage count: a control setter is not called with this many
\* references already held
MaxUsage == 2

\* how many calls on each side of a stage boundary of a start may fail
FailWindow == 1

\* how many calls of one control setter may fail
MaxFails == 1

\* the longest mode catalog imx415_find_best_fit is applied to
MaxCatalog == 3

\* Memory after imx415_common_regs (which has no REG_NULL entry of its own),
\* up to and including the first entry whose reg field reads 0xFFFF: what a
\* walk past the end of the array can find.  Either such an entry follows at
\* once, or the next array of the file follows.
Layouts ==
    { << <<REG_NULL, 0>> >>,
      imx415_linear_10bit_3864x2192_891M_regs }

\* The values user space asks the controls to take
VblankRequests   == { 46, \H08FC - IMX415_PIXEL_ARRAY_HEIGHT, 1804 }
ExposureRequests(e) == { IMX415_EXPOSURE_MIN, e.max, e.max + 1 }
GainRequests     == { IMX415_GAIN_MIN, IMX415_GAIN_MAX }
FlipRequests     == { 0, 1 }
LaneCounts       == { 2, 3, 4 }
ChipIds          == { IMX415_CHIP_ID, \H00 }
LaneReadbacks    == { \H01, \H03 }
\* what the sensor answers to a read of the flip register
FlipContents     == { \H00, \H03, \H04 }

-----------------------------------------------------------------------------
(* Register codec, imx415.c:78-91 *)

\* A u32 is kept as its two 16-bit halves.
U32(x) == [ hi |-> (x \div 65536) % 65536, lo |-> x % 65536 ]

\* u32 subtraction a - b, wrapping modulo 2^32
U32Sub(a, b) == U32(a - b)

IMX415_FETCH_GAIN_H(v) == (v.lo \div 256) % 8
IMX415_FETCH_GAIN_L(v) == v.lo % 256
IMX415_FETCH_EXP_H(v)  == v.hi % 16
IMX415_FETCH_EXP_M(v)  == (v.lo \div 256) % 256
IMX415_FETCH_EXP_L(v)  == v.lo % 256
IMX415_FETCH_VTS_H(v)  == v.hi % 16
IMX415_FETCH_VTS_M(v)  == (v.lo \div 256) % 256
IMX415_FETCH_VTS_L(v)  == v.lo % 256

\* Mutant of SetBits: the other bits of the byte are dropped.
SetBitsOnly(val, mask) == mask

\* val |= mask; val &= ~mask, for a one-bit mask
SetBits(val, mask)   == IF (val \div mask) % 2 = 1 THEN val ELSE val + mask
ClearBits(val, mask) == IF (val \div mask) % 2 = 1 THEN val - mask ELSE val

\* a | b on two's-complement ints (ret |= ...)
\* Mutant of BitOr: the result of the earlier sub-writes is overwritten.
BitOrKeepsLast(a, b) == b

RECURSIVE BitOr(_, _)
BitOr(a, b) ==
    IF a = 0 THEN b
    ELSE IF b = 0 THEN a
    ELSE IF a = -1 \/ b = -1 THEN -1
    ELSE (IF a % 2 = 1 \/ b % 2 = 1 THEN 1 ELSE 0) + 2 * BitOr(a \div 2, b \div 2)

-----------------------------------------------------------------------------
(* Register access port, imx415.c:380-455.                                 *)
(* A bus is [log, n, fails]: the calls issued so far by the running        *)
(* operation, how many of them were calls that can fail (bus transfers,    *)
(* clock and regulator enables), and the ordinals of those that do fail.   *)

NewBus(fails) == [ log |-> << >>, n |-> 0, fails |-> fails ]

BusFails(bus) == (bus.n + 1) \in bus.fails

\* one more call that can fail, logged with its outcome
Issue(bus, rw, reg, val) ==
    [ bus EXCEPT !.log = Append(@, [ rw |-> rw, reg |-> reg, val |-> val,
                                     ok |-> ~BusFails(bus) ]),
                 !.n = @ + 1 ]

\* a call that cannot fail (gpio, disables)
Note(bus, rw, reg, val) ==
    [ bus EXCEPT !.log = Append(@, [ rw |-> rw, reg |-> reg, val |-> val,
                                     ok |-> TRUE ]) ]

\* imx415_write_reg: [ret, bus]
imx415_write_reg(bus, reg, len, val) ==
    IF len > 4
    THEN [ ret |-> -EINVAL, bus |-> bus ]
    ELSE [ ret |-> IF BusFails(bus) THEN -EIO ELSE 0,
           bus |-> Issue(bus, "w", reg, val) ]

\* imx415_read_reg of a register holding `content': [ret, val, bus]; on
\* failure *val is left as it was (`old')
imx415_read_reg(bus, reg, len, content, old) ==
    IF len > 4 \/ len = 0
    THEN [ ret |-> -EINVAL, val |-> old, bus |-> bus ]
    ELSE [ ret |-> IF BusFails(bus) THEN -EIO ELSE 0,
           val |-> IF BusFails(bus) THEN old ELSE content,
           bus |-> Issue(bus, "r", reg, content) ]

\* what the j-th call from now returns
CallRet(bus, j) == IF (bus.n + j) \in bus.fails THEN -EIO ELSE 0

\* Mutant of write_array_loop: the test `ret == 0' is missing, the loop runs
\* on after a failed write and returns the last write's result.
RECURSIVE write_array_loop_no_stop(_, _, _, _)
write_array_loop_no_stop(bus, regs, i, r) ==
    IF regs[i][1] # REG_NULL
    THEN write_array_loop_no_stop(bus, regs, i + 1, CallRet(bus, i))
    ELSE [ i |-> i, ret |-> r ]

\* The for loop of imx415_write_array over the memory `regs', entered at
\* index i with `r' returned by the write before: [i, ret] when it exits.
RECURSIVE write_array_loop(_, _, _, _)
write_array_loop(bus, regs, i, r) ==
    IF r = 0 /\ regs[i][1] # REG_NULL
    THEN write_array_loop(bus, regs, i + 1, CallRet(bus, i))
    ELSE [ i |-> i, ret |-> r ]

\* imx415_write_array: [ret, bus]; entries 1 .. i-1 were written, one
\* imx415_write_reg of IMX415_REG_VALUE_08BIT each
imx415_write_array(bus, regs) ==
    LET x == write_array_loop(bus, regs, 1, 0)
    IN  [ ret |-> x.ret,
          bus |-> [ bus EXCEPT
                      !.log = @ \o [ j \in 1..(x.i - 1) |->
                                       [ rw |-> "w", reg |-> regs[j][1],
                                         val |-> regs[j][2],
                                         ok |-> CallRet(bus, j) = 0 ] ],
                      !.n = @ + x.i - 1 ] ]

\* the memory imx415_write_array walks when handed imx415_common_regs,
\* `after' being what follows the array
common_regs_memory(after) == imx415_common_regs \o after


-----------------------------------------------------------------------------
(* Power sequencer, imx415.c:697-736 and 825-873.                          *)
(* A context c is the record of everything a handler can change: the      *)
(* session's fields, hw, pm and the bus.                                   *)

\* Mutant of imx415_set_data_lanes: a read-back that differs is an error.
imx415_set_data_lanes_strict(bus, nl, rb) ==
    IF nl \notin {2, 4}
    THEN [ ret |-> -EINVAL, bus |-> bus ]
    ELSE LET laneval == IF nl = 2 THEN 1 ELSE 3
             w == imx415_write_reg(bus, IMX415_REG_LANE_MODE,
                                   IMX415_REG_VALUE_08BIT, laneval)
             r == imx415_read_reg(w.bus, IMX415_REG_LANE_MODE,
                                  IMX415_REG_VALUE_08BIT, rb, 0)
         IN  IF w.ret # 0
             THEN [ ret |-> w.ret, bus |-> w.bus ]
             ELSE IF r.ret = 0 /\ r.val # laneval
             THEN [ ret |-> -EIO, bus |-> r.bus ]
             ELSE [ ret |-> r.ret, bus |-> r.bus ]

\* imx415_set_data_lanes: [ret, bus]; `rb' is what the sensor answers to the
\* read-back of the lane-mode register
imx415_set_data_lanes(bus, nl, rb) ==
    IF nl \notin {2, 4}
    THEN [ ret |-> -EINVAL, bus |-> bus ]
    ELSE LET laneval == IF nl = 2 THEN 1 ELSE 3
             w == imx415_write_reg(bus, IMX415_REG_LANE_MODE,
                                   IMX415_REG_VALUE_08BIT, laneval)
             r == imx415_read_reg(w.bus, IMX415_REG_LANE_MODE,
                                  IMX415_REG_VALUE_08BIT, rb, 0)
         IN  IF w.ret # 0
             THEN [ ret |-> w.ret, bus |-> w.bus ]
             ELSE [ ret |-> r.ret, bus |-> r.bus ]

\* Mutant of imx415_power_on: the clock stays enabled when the supplies
\* fail.
imx415_power_on_keeps_clock(c, nl, rb) ==
    LET b1 == Issue(c.bus, "clk", 0, 1)
        b2 == Issue(b1, "sup", 0, 1)
        b3 == Note(b2, "rst", 0, 1)
        l  == imx415_set_data_lanes(b3, nl, rb)
    IN  IF BusFails(c.bus)
        THEN [ ret |-> -EINVAL, c |-> [ c EXCEPT !.bus = b1 ] ]
        ELSE IF BusFails(b1)
        THEN [ ret |-> -EINVAL,
               c |-> [ c EXCEPT !.bus = b2, !.hw.clk = @ + 1 ] ]
        ELSE [ ret |-> l.ret,
               c |-> [ c EXCEPT !.bus = l.bus,
                                !.hw = [ clk |-> c.hw.clk + 1,
                                         sup |-> c.hw.sup + 1,
                                         rst |-> 1 ] ] ]

\* imx415_power_on: [ret, c]
imx415_power_on(c, nl, rb) ==
    LET b1 == Issue(c.bus, "clk", 0, 1)
        b2 == Issue(b1, "sup", 0, 1)
        b3 == Note(b2, "rst", 0, 1)
        l  == imx415_set_data_lanes(b3, nl, rb)
    IN  IF BusFails(c.bus)
        THEN [ ret |-> -EINVAL, c |-> [ c EXCEPT !.bus = b1 ] ]
        ELSE IF BusFails(b1)
        THEN [ ret |-> -EINVAL,
               c |-> [ c EXCEPT !.bus = Note(b2, "clk", 0, 0) ] ]
        ELSE [ ret |-> l.ret,
               c |-> [ c EXCEPT !.bus = l.bus,
                                !.hw = [ clk |-> c.hw.clk + 1,
                                         sup |-> c.hw.sup + 1,
                                         rst |-> 1 ] ] ]

\* imx415_power_off: c
imx415_power_off(c) ==
    [ c EXCEPT !.bus = Note(Note(Note(@, "clk", 0, 0), "rst", 0, 0),
                            "sup", 0, 0),
               !.hw = [ clk |-> c.hw.clk - 1, sup |-> c.hw.sup - 1, rst |-> 0 ] ]

-----------------------------------------------------------------------------
(* Runtime PM of client->dev, as the driver calls it: imx415_pm_ops        *)
(* (imx415.c:987-988) makes imx415_power_on the resume callback and        *)
(* imx415_power_off the suspend callback.                                  *)

\* rpm_idle(dev, RPM_ASYNC): an idle request is queued when nothing forbids
\* a suspend
rpm_idle_async(c) ==
    IF ~c.pm.error /\ c.pm.usage = 0 /\ c.pm.status = "active"
    THEN [ c EXCEPT !.pm.request = "idle" ]
    ELSE c

\* rpm_resume(dev, 0): synchronous resume, [ret, c]
rpm_resume_sync(c, nl, rb) ==
    IF c.pm.error
    THEN [ ret |-> -EINVAL, c |-> c ]
    ELSE IF c.pm.status = "active"
    THEN [ ret |-> 1, c |-> [ c EXCEPT !.pm.request = "none" ] ]
    ELSE LET p == imx415_power_on([ c EXCEPT !.pm.request = "none" ], nl, rb)
         IN  IF p.ret # 0
             THEN [ ret |-> p.ret, c |-> [ p.c EXCEPT !.pm.error = TRUE ] ]
             ELSE [ ret |-> 0,
                    c |-> rpm_idle_async([ p.c EXCEPT !.pm.status = "active" ]) ]

\* pm_runtime_get_sync: [ret, c]
pm_runtime_get_sync(c, nl, rb) ==
    rpm_resume_sync([ c EXCEPT !.pm.usage = @ + 1 ], nl, rb)

\* pm_runtime_get: the resume is only requested, [ret, c]
pm_runtime_get(c) ==
    LET g == [ c EXCEPT !.pm.usage = @ + 1 ]
    IN  IF g.pm.error
        THEN [ ret |-> -EINVAL, c |-> g ]
        ELSE IF g.pm.status = "active"
        THEN [ ret |-> 1, c |-> [ g EXCEPT !.pm.request = "none" ] ]
        ELSE [ ret |-> 0, c |-> [ g EXCEPT !.pm.request = "resume" ] ]

\* pm_runtime_put_noidle: c
pm_runtime_put_noidle(c) == [ c EXCEPT !.pm.usage = @ - 1 ]

\* pm_runtime_put: c
pm_runtime_put(c) ==
    LET d == [ c EXCEPT !.pm.usage = @ - 1 ]
    IN  IF d.pm.usage = 0 THEN rpm_idle_async(d) ELSE d


-----------------------------------------------------------------------------
(* V4L2 control framework, as the driver relies on it: the controls are    *)
(* integer controls of step 1 created by v4l2_ctrl_new_std                 *)
(* (imx415.c:1145-1185), s_ctrl is imx415_set_ctrl (imx415.c:976-978).     *)

Clamp(v, lo, hi) == IF v > hi THEN hi ELSE IF v < lo THEN lo ELSE v

Ctrl(min, max, def) == [ min |-> min, max |-> max, def |-> def, val |-> def ]

Mode(c) == supported_modes[c.cur_mode]

RECURSIVE imx415_set_ctrl(_, _, _, _)

\* Setting control `id' to `val': the value is brought into the control's
\* range; s_ctrl is called only when the value changes, and the new value is
\* stored only when s_ctrl returned 0.  [ret, c]
v4l2_ctrl_s_ctrl(c, id, val, content) ==
    LET new == Clamp(val, c[id].min, c[id].max)
        r   == imx415_set_ctrl(c, id, new, content)
    IN  IF new = c[id].val
        THEN [ ret |-> 0, c |-> c ]
        ELSE IF r.ret = 0
        THEN [ ret |-> 0, c |-> [ r.c EXCEPT ![id].val = new ] ]
        ELSE r

\* __v4l2_ctrl_modify_range: a range that does not hold its default is
\* refused and nothing changes; otherwise the new range is stored, and when
\* the current value lies outside it the value is set, as above, to the
\* nearest value inside.  The driver ignores what it returns.  c
v4l2_ctrl_modify_range(c, id, min, max, def) ==
    IF min > max \/ def < min \/ def > max
    THEN c
    ELSE v4l2_ctrl_s_ctrl([ c EXCEPT ![id].min = min, ![id].max = max,
                                     ![id].def = def ], id, c[id].val, 0).c

-----------------------------------------------------------------------------
(* Control state, imx415.c:875-973 *)

\* the register accesses of one control, device active: [ret, c]; `content'
\* is what the sensor answers should the flip register be read
set_ctrl_regs(c, id, val, content) ==
    CASE id = "exposure" ->
           LET shr0 == U32Sub(c.cur_vts, val)
               w1 == imx415_write_reg(c.bus, IMX415_LF_EXPO_REG_L,
                        IMX415_REG_VALUE_08BIT, IMX415_FETCH_EXP_L(shr0))
               w2 == imx415_write_reg(w1.bus, IMX415_LF_EXPO_REG_M,
                        IMX415_REG_VALUE_08BIT, IMX415_FETCH_EXP_M(shr0))
               w3 == imx415_write_reg(w2.bus, IMX415_LF_EXPO_REG_H,
                        IMX415_REG_VALUE_08BIT, IMX415_FETCH_EXP_H(shr0))
           IN  [ ret |-> BitOr(BitOr(w1.ret, w2.ret), w3.ret),
                 c |-> [ c EXCEPT !.bus = w3.bus ] ]
      [] id = "anal_a_gain" ->
           LET w1 == imx415_write_reg(c.bus, IMX415_LF_GAIN_REG_H,
                        IMX415_REG_VALUE_08BIT, IMX415_FETCH_GAIN_H(U32(val)))
               w2 == imx415_write_reg(w1.bus, IMX415_LF_GAIN_REG_L,
                        IMX415_REG_VALUE_08BIT, IMX415_FETCH_GAIN_L(U32(val)))
           IN  [ ret |-> BitOr(w1.ret, w2.ret),
                 c |-> [ c EXCEPT !.bus = w2.bus ] ]
      [] id = "vblank" ->
           LET vts == val + Mode(c).height
               w1 == imx415_write_reg(c.bus, IMX415_VTS_REG_L,
                        IMX415_REG_VALUE_08BIT, IMX415_FETCH_VTS_L(U32(vts)))
               w2 == imx415_write_reg(w1.bus, IMX415_VTS_REG_M,
                        IMX415_REG_VALUE_08BIT, IMX415_FETCH_VTS_M(U32(vts)))
               w3 == imx415_write_reg(w2.bus, IMX415_VTS_REG_H,
                        IMX415_REG_VALUE_08BIT, IMX415_FETCH_VTS_H(U32(vts)))
           IN  [ ret |-> BitOr(BitOr(w1.ret, w2.ret), w3.ret),
                 c |-> [ c EXCEPT !.bus = w3.bus, !.cur_vts = vts ] ]
      [] id \in { "hflip", "vflip" } ->
           LET mask == IF id = "hflip" THEN IMX415_MIRROR_BIT_MASK
                                       ELSE IMX415_FLIP_BIT_MASK
               r == imx415_read_reg(c.bus, IMX415_FLIP_REG,
                        IMX415_REG_VALUE_08BIT, content, 0)
               v == IF val # 0 THEN SetBits(r.val, mask)
                               ELSE ClearBits(r.val, mask)
               w == imx415_write_reg(r.bus, IMX415_FLIP_REG,
                        IMX415_REG_VALUE_08BIT, v)
           IN  IF r.ret # 0
               THEN [ ret |-> r.ret, c |-> [ c EXCEPT !.bus = r.bus ] ]
               ELSE [ ret |-> w.ret, c |-> [ c EXCEPT !.bus = w.bus ] ]
      [] OTHER -> [ ret |-> 0, c |-> c ]

\* Mutant of imx415_set_ctrl: the exposure range does not follow v-blank.
imx415_set_ctrl_keeps_range(c, id, val, content) ==
    LET g  == pm_runtime_get(c)
        w  == set_ctrl_regs(g.c, id, val, content)
    IN  IF g.ret <= 0
        THEN [ ret |-> 0, c |-> g.c ]
        ELSE [ ret |-> w.ret, c |-> pm_runtime_put(w.c) ]

\* Mutant of imx415_set_ctrl: the result of the register writes is dropped.
imx415_set_ctrl_ignore_errors(c, id, val, content) ==
    LET c1 == IF id = "vblank"
              THEN v4l2_ctrl_modify_range(c, "exposure", c.exposure.min,
                                          Mode(c).height + val - 4,
                                          c.exposure.def)
              ELSE c
        g  == pm_runtime_get(c1)
        w  == set_ctrl_regs(g.c, id, val, content)
    IN  IF g.ret <= 0
        THEN [ ret |-> 0, c |-> g.c ]
        ELSE [ ret |-> 0, c |-> pm_runtime_put(w.c) ]

\* imx415_set_ctrl: [ret, c]
imx415_set_ctrl(c, id, val, content) ==
    LET c1 == IF id = "vblank"
              THEN v4l2_ctrl_modify_range(c, "exposure", c.exposure.min,
                                          Mode(c).height + val - 4,
                                          c.exposure.def)
              ELSE c
        g  == pm_runtime_get(c1)
        w  == set_ctrl_regs(g.c, id, val, content)
    IN  IF g.ret <= 0
        THEN [ ret |-> 0, c |-> g.c ]
        ELSE [ ret |-> w.ret, c |-> pm_runtime_put(w.c) ]


-----------------------------------------------------------------------------
(* Streaming state machine, imx415.c:763-823 *)

\* Mutant of imx415_start_stream: the result of the common table is not
\* looked at.
imx415_start_stream_unchecked(c, after) ==
    LET a == imx415_write_array(c.bus, common_regs_memory(after))
        m == imx415_write_array(a.bus, Mode(c).reg_list)
    IN  IF m.ret # 0 THEN m
        ELSE imx415_write_reg(m.bus, IMX415_REG_STANDBY,
                              IMX415_REG_VALUE_08BIT, 0)

\* __imx415_start_stream: [ret, bus]
imx415_start_stream(c, after) ==
    LET a == imx415_write_array(c.bus, common_regs_memory(after))
        m == imx415_write_array(a.bus, Mode(c).reg_list)
    IN  IF a.ret # 0 THEN a
        ELSE IF m.ret # 0 THEN m
        ELSE imx415_write_reg(m.bus, IMX415_REG_STANDBY,
                              IMX415_REG_VALUE_08BIT, 0)

\* Mutant of imx415_stop_stream: the streaming value is written.
imx415_stop_stream_wrong_value(c) ==
    imx415_write_reg(c.bus, IMX415_REG_STANDBY, IMX415_REG_VALUE_08BIT, 0)

\* __imx415_stop_stream: [ret, bus]
imx415_stop_stream(c) ==
    imx415_write_reg(c.bus, IMX415_REG_STANDBY, IMX415_REG_VALUE_08BIT, 1)

\* Mutant of imx415_s_stream: the test `on == imx415->streaming' is missing.
imx415_s_stream_no_self_check(c, on, rb, after) ==
    LET g    == pm_runtime_get_sync(c, nlanes, rb)
        st   == imx415_start_stream(g.c, after)
        sp   == imx415_stop_stream(c)
    IN  IF on
        THEN IF g.ret < 0
             THEN [ ret |-> g.ret, c |-> pm_runtime_put_noidle(g.c) ]
             ELSE IF st.ret # 0
             THEN [ ret |-> st.ret,
                    c |-> pm_runtime_put([ g.c EXCEPT !.bus = st.bus ]) ]
             ELSE [ ret |-> st.ret,
                    c |-> [ g.c EXCEPT !.bus = st.bus, !.streaming = on ] ]
        ELSE [ ret |-> 0,
               c |-> [ pm_runtime_put([ c EXCEPT !.bus = sp.bus ])
                         EXCEPT !.streaming = on ] ]

\* imx415_s_stream: [ret, c]; `rb' is the lane-mode read-back should the
\* device have to be resumed
imx415_s_stream(c, on, rb, after) ==
    LET g    == pm_runtime_get_sync(c, nlanes, rb)
        st   == imx415_start_stream(g.c, after)
        sp   == imx415_stop_stream(c)
    IN  IF on = c.streaming
        THEN [ ret |-> 0, c |-> c ]
        ELSE IF on
        THEN IF g.ret < 0
             THEN [ ret |-> g.ret, c |-> pm_runtime_put_noidle(g.c) ]
             ELSE IF st.ret # 0
             THEN [ ret |-> st.ret,
                    c |-> pm_runtime_put([ g.c EXCEPT !.bus = st.bus ]) ]
             ELSE [ ret |-> st.ret,
                    c |-> [ g.c EXCEPT !.bus = st.bus, !.streaming = on ] ]
        ELSE [ ret |-> 0,
               c |-> [ pm_runtime_put([ c EXCEPT !.bus = sp.bus ])
                         EXCEPT !.streaming = on ] ]

-----------------------------------------------------------------------------
(* Mode catalog and selection, imx415.c:457-491 and 596-634 *)

\* imx415->cfg_num is allocated zeroed (imx415.c:1022) and never assigned
cfg_num == 0

Abs(x) == IF x < 0 THEN -x ELSE x

\* imx415_get_reso_dist
imx415_get_reso_dist(mode, framefmt) ==
    Abs(mode.width - framefmt.width) + Abs(mode.height - framefmt.height)

\* imx415_find_best_fit: the loop from catalog index i (0-based), the result
\* is the 0-based cur_best_fit
RECURSIVE find_best_fit_from(_, _, _, _, _)
find_best_fit_from(modes, framefmt, i, cur_best_fit, cur_best_fit_dist) ==
    IF i < cfg_num
    THEN LET dist == imx415_get_reso_dist(modes[i + 1], framefmt)
         IN  IF (cur_best_fit_dist = -1 \/ dist <= cur_best_fit_dist)
                /\ modes[i + 1].bus_fmt = framefmt.code
             THEN find_best_fit_from(modes, framefmt, i + 1, i, dist)
             ELSE find_best_fit_from(modes, framefmt, i + 1, cur_best_fit,
                                     cur_best_fit_dist)
    ELSE cur_best_fit

\* imx415_find_best_fit should supported_modes be the catalog `modes':
\* the index (1-based) of the mode chosen
find_best_fit_in(modes, framefmt) ==
    find_best_fit_from(modes, framefmt, 0, 0, -1) + 1

\* index into supported_modes (1-based) of the mode chosen
imx415_find_best_fit(framefmt) == find_best_fit_in(supported_modes, framefmt)

\* Mutant of imx415_change_mode: cur_vts is left as it was.
imx415_change_mode_keeps_vts(c, mode) ==
    [ c EXCEPT !.cur_mode = mode ]

\* imx415_change_mode: c
imx415_change_mode(c, mode) ==
    [ c EXCEPT !.cur_mode = mode, !.cur_vts = supported_modes[mode].vts_def ]

\* imx415_set_fmt for the active format: c
imx415_set_fmt(c, framefmt) ==
    LET mode == imx415_find_best_fit(framefmt)
        m    == supported_modes[mode]
        c1   == imx415_change_mode(c, mode)
        h_blank    == m.hts_def - m.width
        c2   == v4l2_ctrl_modify_range(c1, "hblank", h_blank, h_blank, h_blank)
        vblank_def == m.vts_def - m.height
        vblank_min == (m.height + 46) - m.height
    IN  v4l2_ctrl_modify_range(c2, "vblank", vblank_min,
                               IMX415_VTS_MAX - m.height, vblank_def)

\* the formats user space asks for
FormatRequests ==
    { [ code |-> MEDIA_BUS_FMT_SGBRG10_1X10, width |-> 3864, height |-> 2192 ],
      [ code |-> MEDIA_BUS_FMT_SGBRG10_1X10, width |-> 1920, height |-> 1080 ],
      [ code |-> 0, width |-> 3864, height |-> 2192 ] }


-----------------------------------------------------------------------------
(* Device attach and detach, imx415.c:1009-1273 *)

\* Mutant of imx415_identify_module: the value read is not compared.
imx415_identify_module_any_id(bus, chip) ==
    LET r == imx415_read_reg(bus, IMX415_REG_CHIP_ID,
                             IMX415_REG_VALUE_08BIT, chip, 0)
    IN  [ ret |-> r.ret, bus |-> r.bus ]

\* imx415_identify_module: [ret, bus]; `chip' is what the chip-ID register
\* holds
imx415_identify_module(bus, chip) ==
    LET r == imx415_read_reg(bus, IMX415_REG_CHIP_ID,
                             IMX415_REG_VALUE_08BIT, chip, 0)
    IN  IF r.ret # 0
        THEN [ ret |-> r.ret, bus |-> r.bus ]
        ELSE IF r.val # IMX415_CHIP_ID
        THEN [ ret |-> -EIO, bus |-> r.bus ]
        ELSE [ ret |-> 0, bus |-> r.bus ]

\* Mutant of imx415_probe: the lane count is not looked at.
imx415_probe_any_lanes(c, nl, chip, rb, reg) ==
    LET mode == supported_modes[1]
        h_blank == mode.hts_def - mode.width
        v_blank == mode.vts_def - mode.height
        exposure_max == mode.vts_def - 4
        c1 == [ c EXCEPT !.hw.rst = 1,
                         !.cur_mode = 1,
                         !.anal_a_gain = Ctrl(IMX415_GAIN_MIN, IMX415_GAIN_MAX,
                                              IMX415_GAIN_DEFAULT),
                         !.hblank = Ctrl(h_blank, h_blank, h_blank),
                         !.vblank = Ctrl(v_blank, IMX415_VTS_MAX - mode.height,
                                         v_blank),
                         !.exposure = Ctrl(IMX415_EXPOSURE_MIN, exposure_max,
                                           mode.exp_def),
                         !.hflip = Ctrl(0, 1, 0),
                         !.vflip = Ctrl(0, 1, 0) ]
        p  == imx415_power_on(c1, nl, rb)
        id == imx415_identify_module(p.c.bus, chip)
        c2 == [ p.c EXCEPT !.bus = id.bus ]
    IN  IF p.ret < 0
        THEN [ ret |-> p.ret, life |-> "failed", c |-> p.c ]
        ELSE IF id.ret # 0
        THEN [ ret |-> id.ret, life |-> "failed", c |-> imx415_power_off(c2) ]
        ELSE IF reg = "pads"
        THEN [ ret |-> -EINVAL, life |-> "failed", c |-> c2 ]
        ELSE IF reg = "async"
        THEN [ ret |-> -EINVAL, life |-> "failed", c |-> imx415_power_off(c2) ]
        ELSE \* pm_runtime_set_active, _enable, _idle: nothing holds the
             \* device, it is suspended at once
             [ ret |-> 0, life |-> "bound",
               c |-> [ imx415_power_off(c2) EXCEPT !.pm.status = "suspended" ] ]

\* imx415_probe: [ret, life, c].  `nl' is the lane count of the endpoint,
\* `chip' what the chip-ID register holds, `reg' the step of the media
\* registration that fails, if any.
imx415_probe(c, nl, chip, rb, reg) ==
    LET mode == supported_modes[1]
        h_blank == mode.hts_def - mode.width
        v_blank == mode.vts_def - mode.height
        exposure_max == mode.vts_def - 4
        c1 == [ c EXCEPT !.hw.rst = 1,
                         !.cur_mode = 1,
                         !.anal_a_gain = Ctrl(IMX415_GAIN_MIN, IMX415_GAIN_MAX,
                                              IMX415_GAIN_DEFAULT),
                         !.hblank = Ctrl(h_blank, h_blank, h_blank),
                         !.vblank = Ctrl(v_blank, IMX415_VTS_MAX - mode.height,
                                         v_blank),
                         !.exposure = Ctrl(IMX415_EXPOSURE_MIN, exposure_max,
                                           mode.exp_def),
                         !.hflip = Ctrl(0, 1, 0),
                         !.vflip = Ctrl(0, 1, 0) ]
        p  == imx415_power_on(c1, nl, rb)
        id == imx415_identify_module(p.c.bus, chip)
        c2 == [ p.c EXCEPT !.bus = id.bus ]
    IN  IF nl # 2 /\ nl # 4
        THEN [ ret |-> -EINVAL, life |-> "failed", c |-> c ]
        ELSE IF p.ret < 0
        THEN [ ret |-> p.ret, life |-> "failed", c |-> p.c ]
        ELSE IF id.ret # 0
        THEN [ ret |-> id.ret, life |-> "failed", c |-> imx415_power_off(c2) ]
        ELSE IF reg = "pads"
        THEN [ ret |-> -EINVAL, life |-> "failed", c |-> c2 ]
        ELSE IF reg = "async"
        THEN [ ret |-> -EINVAL, life |-> "failed", c |-> imx415_power_off(c2) ]
        ELSE \* pm_runtime_set_active, _enable, _idle: nothing holds the
             \* device, it is suspended at once
             [ ret |-> 0, life |-> "bound",
               c |-> [ imx415_power_off(c2) EXCEPT !.pm.status = "suspended" ] ]

\* imx415_remove: c.  pm_runtime_disable carries out a pending resume
\* request and drops every other one.
imx415_remove(c, rb) ==
    LET r  == IF c.pm.request = "resume"
              THEN rpm_resume_sync(c, nlanes, rb).c
              ELSE c
        c1 == [ r EXCEPT !.pm.request = "none" ]
        c2 == IF c1.pm.status # "suspended" THEN imx415_power_off(c1) ELSE c1
    IN  [ c2 EXCEPT !.pm.status = "suspended" ]

\* pm_runtime_work: the queued request is carried out.  c
pm_runtime_work(c, rb) ==
    LET c1 == [ c EXCEPT !.pm.request = "none" ]
    IN  IF c.pm.request = "resume"
        THEN rpm_resume_sync(c1, nlanes, rb).c
        ELSE IF ~c1.pm.error /\ c1.pm.usage = 0 /\ c1.pm.status = "active"
        THEN [ imx415_power_off(c1) EXCEPT !.pm.status = "suspended" ]
        ELSE c1

-----------------------------------------------------------------------------
(* The state machine *)

\* The subdev calls followed statement by statement: those that copy
\* imx415->cur_mode into a local `mode' (imx415.c:549, 574), and set_fmt.
Readers == { "get_fmt", "g_frame_interval" }
Threads == Readers \cup { "set_fmt" }

NoCtrl == [ min |-> 0, max |-> 0, def |-> 0, val |-> 0 ]

Init ==
    /\ life = "unbound"
    /\ nlanes = 0
    /\ cur_mode = 0
    /\ cur_vts = 0
    /\ streaming = FALSE
    /\ vblank = NoCtrl
    /\ exposure = NoCtrl
    /\ hblank = NoCtrl
    /\ anal_a_gain = NoCtrl
    /\ hflip = NoCtrl
    /\ vflip = NoCtrl
    /\ pm = [ usage |-> 0, status |-> "suspended", error |-> FALSE,
              request |-> "none" ]
    /\ hw = [ clk |-> 0, sup |-> 0, rst |-> 0 ]
    /\ wlog = << >>
    /\ op = "none"
    /\ arg = [ id |-> "none", val |-> 0 ]
    /\ ret = 0
    /\ thr = [ lock |-> "none",
               pc |-> [ t \in Threads |-> "idle" ],
               mode |-> [ t \in Readers |-> 0 ],
               stale |-> [ t \in Readers |-> FALSE ] ]

\* the context a handler starts from
Ctx(fails) ==
    [ bus |-> NewBus(fails), hw |-> hw, pm |-> pm, cur_mode |-> cur_mode,
      cur_vts |-> cur_vts, streaming |-> streaming, vblank |-> vblank,
      exposure |-> exposure, hblank |-> hblank, anal_a_gain |-> anal_a_gain,
      hflip |-> hflip, vflip |-> vflip ]

\* the session a handler leaves
CommitSession(c, o, a, r) ==
    /\ hw' = c.hw
    /\ pm' = c.pm
    /\ cur_mode' = c.cur_mode
    /\ cur_vts' = c.cur_vts
    /\ streaming' = c.streaming
    /\ vblank' = c.vblank
    /\ exposure' = c.exposure
    /\ hblank' = c.hblank
    /\ anal_a_gain' = c.anal_a_gain
    /\ hflip' = c.hflip
    /\ vflip' = c.vflip
    /\ wlog' = c.bus.log
    /\ op' = o
    /\ arg' = a
    /\ ret' = r

\* the state a handler leaves when no other call is followed meanwhile
Commit(c, o, a, r) ==
    /\ CommitSession(c, o, a, r)
    /\ UNCHANGED thr

\* no call fails
NoFails == { {} }

\* at most one failing call among the first n
SingleFails(n) == { {} } \cup { {k} : k \in 1..n }

\* at most MaxFails of the first n calls failing
FailSets(n) == { F \in SUBSET (1..n) : Cardinality(F) <= MaxFails }

\* The calls of a start at which a failure is injected: the first
\* FailWindow calls of each stage (resume, common table, mode table, standby
\* clear) and the last FailWindow calls before it, whether or not the start
\* has to resume the device (4 calls) first, for every layout.
StartFailPoints ==
    LET nM == Len(supported_modes[1].reg_list) - 1
        ends == UNION { { 0, 4, Len(imx415_common_regs),
                          4 + Len(imx415_common_regs),
                          Len(common_regs_memory(a)) - 1,
                          4 + Len(common_regs_memory(a)) - 1,
                          Len(common_regs_memory(a)) - 1 + nM,
                          4 + Len(common_regs_memory(a)) - 1 + nM } :
                        a \in Layouts }
    IN  { k \in 1..(Len(imx415_common_regs) + 3 * nM + 5) :
            \E e \in ends : k - e \in (1 - FailWindow)..FailWindow }

StartFails == { {} } \cup { {k} : k \in StartFailPoints }

\* Each action is a handler of the driver; its parameters are the sets its
\* inputs are drawn from (the failing calls, the lane counts, the layouts).

Probe(lanes, failsets) ==
    /\ life = "unbound"
    /\ \E nl \in lanes, chip \in ChipIds, rb \in LaneReadbacks,
          reg \in { "none", "pads", "async" }, fails \in failsets :
         LET r == imx415_probe(Ctx(fails), nl, chip, rb, reg)
         IN  /\ life' = r.life
             /\ nlanes' = nl
             /\ Commit(r.c, "probe", [ id |-> reg, val |-> nl ], r.ret)

Remove(failsets) ==
    /\ life = "bound"
    /\ \E rb \in LaneReadbacks, fails \in failsets :
         /\ life' = "removed"
         /\ UNCHANGED nlanes
         /\ Commit(imx415_remove(Ctx(fails), rb), "remove",
                   [ id |-> "", val |-> 0 ], 0)

PmWork(failsets) ==
    /\ life = "bound"
    /\ pm.request # "none"
    /\ \E rb \in LaneReadbacks, fails \in failsets :
         /\ UNCHANGED << life, nlanes >>
         /\ Commit(pm_runtime_work(Ctx(fails), rb), "pm_work",
                   [ id |-> pm.request, val |-> 0 ], 0)

Start(failsets, layouts) ==
    /\ life = "bound"
    /\ \E rb \in LaneReadbacks, fails \in failsets, after \in layouts :
         LET r == imx415_s_stream(Ctx(fails), TRUE, rb, after)
         IN  /\ UNCHANGED << life, nlanes >>
             /\ Commit(r.c, "start", [ id |-> "", val |-> 1 ], r.ret)

Stop(failsets) ==
    /\ life = "bound"
    /\ \E fails \in failsets :
         LET r == imx415_s_stream(Ctx(fails), FALSE, 0, << >>)
         IN  /\ UNCHANGED << life, nlanes >>
             /\ Commit(r.c, "stop", [ id |-> "", val |-> 0 ], r.ret)

SetCtrl(id, val, failsets, contents) ==
    /\ life = "bound"
    /\ pm.usage < MaxUsage
    /\ \E fails \in failsets, content \in contents :
         LET r == v4l2_ctrl_s_ctrl(Ctx(fails), id, val, content)
         IN  /\ UNCHANGED << life, nlanes >>
             /\ Commit(r.c, "set_ctrl", [ id |-> id, val |-> val ], r.ret)

SetVblank ==
    \E v \in VblankRequests : SetCtrl("vblank", v, FailSets(6), {0})

SetExposure ==
    \E e \in ExposureRequests(exposure) : SetCtrl("exposure", e, FailSets(3), {0})

SetGain ==
    \E g \in GainRequests : SetCtrl("anal_a_gain", g, FailSets(2), {0})

SetFlip ==
    \E id \in { "hflip", "vflip" }, f \in FlipRequests :
        SetCtrl(id, f, FailSets(2), FlipContents)

SetFmt ==
    /\ life = "bound"
    /\ \E f \in FormatRequests :
         /\ UNCHANGED << life, nlanes >>
         /\ Commit(imx415_set_fmt(Ctx({}), f), "set_fmt",
                   [ id |-> "", val |-> f.width ], 0)

\* the fields of the session
session == << life, nlanes, cur_mode, cur_vts, streaming, vblank, exposure,
              hblank, anal_a_gain, hflip, vflip, pm, hw >>

\* `const struct imx415_mode *mode = imx415->cur_mode;' of imx415_get_fmt
\* and imx415_g_frame_interval, which precedes their mutex_lock
ReadMode(t) ==
    /\ life = "bound"
    /\ thr.pc[t] = "idle"
    /\ thr' = [ thr EXCEPT !.pc[t] = "lock", !.mode[t] = cur_mode,
                           !.stale[t] = FALSE ]
    /\ UNCHANGED << session, wlog, op, arg, ret >>

\* mutex_lock(&imx415->lock)
MutexLock(t) ==
    /\ life = "bound"
    /\ thr.lock = "none"
    /\ thr.pc[t] = IF t \in Readers THEN "lock" ELSE "idle"
    /\ thr' = [ thr EXCEPT !.lock = t, !.pc[t] = "body" ]
    /\ UNCHANGED << session, wlog, op, arg, ret >>

\* the locked region of imx415_get_fmt (active format) and of
\* imx415_g_frame_interval: the answer is filled in from the local `mode'
ReaderBody(t) ==
    /\ thr.pc[t] = "body"
    /\ thr' = [ thr EXCEPT !.pc[t] = "unlock" ]
    /\ wlog' = << >>
    /\ op' = t
    /\ arg' = [ id |-> supported_modes[thr.mode[t]].bus_fmt,
                val |-> supported_modes[thr.mode[t]].width ]
    /\ ret' = 0
    /\ UNCHANGED session

\* the locked region of imx415_set_fmt (active format); a local `mode' that
\* another call holds while it waits for the mutex is from now on a mode
\* that has been replaced
SetFmtBody ==
    /\ thr.pc["set_fmt"] = "body"
    /\ \E f \in FormatRequests :
         /\ UNCHANGED << life, nlanes >>
         /\ CommitSession(imx415_set_fmt(Ctx({}), f), "set_fmt",
                          [ id |-> "", val |-> f.width ], 0)
    /\ thr' = [ thr EXCEPT
                  !.pc["set_fmt"] = "unlock",
                  !.stale = [ t \in Readers |->
                                @[t] \/ thr.pc[t] = "lock" ] ]

\* mutex_unlock(&imx415->lock) and return
MutexUnlock(t) ==
    /\ thr.pc[t] = "unlock"
    /\ thr' = [ thr EXCEPT !.lock = "none", !.pc[t] = "idle" ]
    /\ UNCHANGED << session, wlog, op, arg, ret >>

\* imx415_enum_mbus_code: reads imx415->cur_mode, takes no lock
EnumMbusCode ==
    /\ life = "bound"
    /\ wlog' = << >>
    /\ op' = "enum_mbus_code"
    /\ arg' = [ id |-> supported_modes[cur_mode].bus_fmt, val |-> 0 ]
    /\ ret' = 0
    /\ UNCHANGED << session, thr >>

\* the modes a catalog is made of, and the catalogs: every sequence of 1 to
\* MaxCatalog of them
CatalogModes ==
    { [ bus_fmt |-> f, width |-> d[1], height |-> d[2] ] :
        f \in { MEDIA_BUS_FMT_SGBRG10_1X10, \H3007 },
        d \in { << IMX415_PIXEL_ARRAY_WIDTH, IMX415_PIXEL_ARRAY_HEIGHT >>,
                << 1920, 1080 >> } }

Catalogs == UNION { [ 1..n -> CatalogModes ] : n \in 1..MaxCatalog }

\* imx415_find_best_fit applied to a catalog and a requested format
FindBestFit ==
    /\ \E modes \in Catalogs, f \in FormatRequests :
         /\ op' = "find_best_fit"
         /\ arg' = [ id |-> modes, val |-> f ]
         /\ ret' = find_best_fit_in(modes, f)
    /\ wlog' = << >>
    /\ UNCHANGED << session, thr >>

\* The streaming and power lifecycle on an unreliable bus, with one control
\* setter.
Next ==
    \/ Probe(LaneCounts, SingleFails(5))
    \/ Remove(SingleFails(4))
    \/ PmWork(SingleFails(4))
    \/ Start(StartFails, Layouts)
    \/ Stop(SingleFails(1))
    \/ SetGain

Spec == Init /\ [][Next]_vars

\* The blanking and exposure controls on a device with 4 lanes whose power-up
\* and table writes succeed; the register writes of the setters may fail.
NextCtl ==
    \/ Probe({4}, NoFails)
    \/ PmWork(NoFails)
    \/ Start(NoFails, Layouts)
    \/ Stop(NoFails)
    \/ SetVblank
    \/ SetExposure
    \/ SetFmt

SpecCtl == Init /\ [][NextCtl]_vars

\* The setters of the controls written by several sub-writes, on an
\* unreliable bus, on a device with 4 lanes whose power-up and table writes
\* succeed.
NextSet ==
    \/ Probe({4}, NoFails)
    \/ PmWork(NoFails)
    \/ Start(NoFails, { << <<REG_NULL, 0>> >> })
    \/ Stop(NoFails)
    \/ SetVblank
    \/ SetExposure
    \/ SetGain

SpecSet == Init /\ [][NextSet]_vars

\* The flip setters on an unreliable bus, on a device with 4 lanes whose
\* power-up and table writes succeed.
NextFlip ==
    \/ Probe({4}, NoFails)
    \/ PmWork(NoFails)
    \/ Start(NoFails, { << <<REG_NULL, 0>> >> })
    \/ Stop(NoFails)
    \/ SetFlip

SpecFlip == Init /\ [][NextFlip]_vars

\* The calls that read or replace the current mode, interleaved at their
\* mutex_lock and mutex_unlock; s_stream runs with the mutex held from start
\* to end.
NextLock ==
    \/ Probe({4}, NoFails)
    \/ PmWork(NoFails)
    \/ (thr.lock = "none" /\ Start(NoFails, { << <<REG_NULL, 0>> >> }))
    \/ (thr.lock = "none" /\ Stop(NoFails))
    \/ \E t \in Readers : ReadMode(t)
    \/ \E t \in Threads : MutexLock(t)
    \/ \E t \in Readers : ReaderBody(t)
    \/ SetFmtBody
    \/ \E t \in Threads : MutexUnlock(t)
    \/ EnumMbusCode

SpecLock == Init /\ [][NextLock]_vars

\* imx415_find_best_fit on every catalog and request
NextFit == FindBestFit

SpecFit == Init /\ [][NextFit]_vars

-----------------------------------------------------------------------------
(* Properties *)

\* a call of the log failed / the writes of a log to a register
AnyFail(log) == \E i \in 1..Len(log) : ~log[i].ok
Writes(log)  == SelectSeq(log, LAMBDA e : e.rw = "w")
WritesTo(log, reg) == SelectSeq(log, LAMBDA e : e.rw = "w" /\ e.reg = reg)

\* C1: a start called in Standby in which a call fails (a write of the
\* common table, of the mode table or of the standby clear, or a step of
\* the resume), or whose power reference cannot be obtained because runtime
\* PM is in error, returns an error, leaves the streaming flag false and
\* holds no more power references than before the call.
C1_FailedStartStaysStandby ==
    [][ (op' = "start" /\ ~streaming /\ (AnyFail(wlog') \/ pm.error))
        => (ret' < 0 /\ ~streaming' /\ pm'.usage = pm.usage) ]_vars

\* C1 witness: a start has failed at a register write of a table
C1_Witness ==
    /\ op = "start" /\ ret < 0 /\ ~streaming
    /\ \E i \in 1..Len(wlog) :
         wlog[i].rw = "w" /\ ~wlog[i].ok /\ wlog[i].reg # IMX415_REG_LANE_MODE

\* C8: a stop from Streaming ends in Standby, returns 0 and releases one
\* power reference, whether or not the write of 1 to the standby register
\* succeeds.
C8_StopAlwaysStandby ==
    [][ (op' = "stop" /\ streaming)
        => (~streaming' /\ ret' = 0 /\ pm'.usage = pm.usage - 1
            /\ Len(wlog') = 1 /\ wlog'[1].rw = "w"
            /\ wlog'[1].reg = IMX415_REG_STANDBY /\ wlog'[1].val = 1) ]_vars

\* C8 witness: a stop whose standby write failed has ended in Standby
C8_Witness ==
    /\ op = "stop" /\ ret = 0 /\ ~streaming
    /\ Len(wlog) = 1 /\ ~wlog[1].ok

\* C9: a start while Streaming and a stop while in Standby return 0, issue
\* no call at all, and leave the streaming flag and the runtime-PM state
\* (the power references among it) as they were.
C9_SelfTransitionNoOp ==
    [][ ((op' = "start" /\ streaming) \/ (op' = "stop" /\ ~streaming))
        => (ret' = 0 /\ wlog' = << >> /\ streaming' = streaming /\ pm' = pm
            /\ hw' = hw) ]_vars

\* C9 witness: a start was called while Streaming
C9_Witness == op = "start" /\ streaming /\ wlog = << >>

\* the register writes of a start that follow the resume of the device
TableWrites(log) ==
    SelectSeq(log, LAMBDA e : e.rw = "w" /\ e.reg # IMX415_REG_LANE_MODE)

\* the entries of a table before its first REG_NULL entry
BeforeSentinel(regs) ==
    SubSeq(regs, 1,
           (CHOOSE i \in 1..(Len(regs) + 1) :
              /\ i <= Len(regs) => regs[i][1] = REG_NULL
              /\ \A j \in 1..(i - 1) : regs[j][1] # REG_NULL) - 1)

\* C2: the register writes of a successful start from Standby are the
\* entries of the common table in order, then the entries of the current
\* mode's table in order, then one write of 0 to the standby register, and
\* nothing else; and in no start is the standby register written unless
\* every write before it succeeded.
C2_StartWriteOrder ==
    op = "start" =>
      LET w == TableWrites(wlog)
          expected == BeforeSentinel(imx415_common_regs)
                        \o BeforeSentinel(supported_modes[cur_mode].reg_list)
                        \o << <<IMX415_REG_STANDBY, 0>> >>
      IN  /\ (ret = 0 /\ wlog # << >>) =>
                /\ Len(w) = Len(expected)
                /\ \A i \in 1..Len(w) :
                     w[i].reg = expected[i][1] /\ w[i].val = expected[i][2]
          /\ \A i \in 1..Len(w) :
               w[i].reg = IMX415_REG_STANDBY =>
                 \A j \in 1..(i - 1) : w[j].ok

\* C3: every table handed to imx415_write_array holds a REG_NULL entry as
\* its last one, and a start writes no register address REG_NULL and no
\* more table entries than the common table and the mode's table hold
\* before their sentinels.
C3_WalkStaysInsideTables ==
    op = "start" =>
      /\ \A t \in { imx415_common_regs }
                   \cup { supported_modes[m].reg_list :
                            m \in DOMAIN supported_modes } :
           t[Len(t)][1] = REG_NULL
      /\ \A i \in 1..Len(wlog) : wlog[i].reg # REG_NULL
      /\ Len(TableWrites(wlog)) <=
           Len(BeforeSentinel(imx415_common_regs))
             + Len(BeforeSentinel(supported_modes[cur_mode].reg_list)) + 1

\* the registers a control is written to
ControlRegs(id) ==
    CASE id = "exposure" -> { IMX415_LF_EXPO_REG_L, IMX415_LF_EXPO_REG_M,
                              IMX415_LF_EXPO_REG_H }
      [] id = "vblank" -> { IMX415_VTS_REG_L, IMX415_VTS_REG_M,
                            IMX415_VTS_REG_H }
      [] id = "anal_a_gain" -> { IMX415_LF_GAIN_REG_H, IMX415_LF_GAIN_REG_L }
      [] OTHER -> { IMX415_FLIP_REG }

\* C4: in every state of a bound device the exposure control's range is
\* [8, cur_vts - 4].
C4_ExposureRangeFollowsVts ==
    life = "bound" =>
      exposure.min = IMX415_EXPOSURE_MIN /\ exposure.max = cur_vts - 4

\* C5: when set_vblank(v), v inside the v-blank control's range, returns 0,
\* the exposure maximum is height + v - 4, and an exposure value above
\* that maximum has become that maximum (any other value is kept).
C5_VblankBoundsExposure ==
    [][ (op' = "set_ctrl" /\ arg'.id = "vblank" /\ ret' = 0
         /\ arg'.val >= vblank.min /\ arg'.val <= vblank.max)
        => /\ exposure'.max
                = supported_modes[cur_mode].height + arg'.val - 4
           /\ exposure'.val = IF exposure.val > exposure'.max
                               THEN exposure'.max ELSE exposure.val ]_vars

\* C6: when set_vblank(v), v inside the v-blank control's range, returns 0,
\* cur_vts is v + height, whatever the runtime-PM status was.
C6_VblankStoresVts ==
    [][ (op' = "set_ctrl" /\ arg'.id = "vblank" /\ ret' = 0
         /\ arg'.val >= vblank.min /\ arg'.val <= vblank.max)
        => cur_vts' = arg'.val + supported_modes[cur_mode].height ]_vars

\* the control of the session named id
ControlOf(id) ==
    CASE id = "exposure" -> exposure
      [] id = "vblank" -> vblank
      [] id = "anal_a_gain" -> anal_a_gain
      [] id = "hflip" -> hflip
      [] OTHER -> vflip

\* C7: when a setter has returned 0 with the device suspended, having
\* stored the value it was asked for and only requested the resume, and
\* the next call is a start that succeeds, that start writes each of the
\* control's registers.
C7_StartFlushesControls ==
    [][ (op = "set_ctrl" /\ ret = 0 /\ pm.status = "suspended"
         /\ pm.request = "resume" /\ ControlOf(arg.id).val = arg.val
         /\ op' = "start" /\ ret' = 0 /\ streaming')
        => \A reg \in ControlRegs(arg.id) :
             Len(WritesTo(wlog', reg)) > 0 ]_vars

GroupOrder(id) ==
    CASE id = "exposure" -> << IMX415_LF_EXPO_REG_L, IMX415_LF_EXPO_REG_M,
                               IMX415_LF_EXPO_REG_H >>
      [] id = "vblank" -> << IMX415_VTS_REG_L, IMX415_VTS_REG_M,
                             IMX415_VTS_REG_H >>
      [] id = "anal_a_gain" -> << IMX415_LF_GAIN_REG_H, IMX415_LF_GAIN_REG_L >>
      [] OTHER -> << >>

\* the sub-writes of a log to the registers of control id
GroupWrites(log, id) ==
    SelectSeq(log, LAMBDA e : e.rw = "w" /\ e.reg \in ControlRegs(id))

\* C11: a setter of exposure, v-blank or analog gain that writes the
\* control's registers issues every sub-write of the group, in order,
\* whether or not an earlier one failed, and it returns an error exactly
\* when one of the sub-writes failed.
C11_AllSubWritesIssued ==
    [][ (op' = "set_ctrl" /\ arg'.id \in { "exposure", "vblank", "anal_a_gain" })
        => LET g == GroupWrites(wlog', arg'.id)
           IN  /\ g # << >> =>
                    [ i \in 1..Len(g) |-> g[i].reg ] = GroupOrder(arg'.id)
               /\ (ret' # 0) <=> AnyFail(g) ]_vars

\* C11 witness: the first sub-write of a group failed, the last one was
\* still issued and succeeded, and the setter returned an error
C11_Witness ==
    /\ op = "set_ctrl" /\ arg.id \in { "exposure", "vblank", "anal_a_gain" }
    /\ ret < 0
    /\ LET g == GroupWrites(wlog, arg.id)
       IN  /\ Len(g) = Len(GroupOrder(arg.id))
           /\ ~g[1].ok /\ g[Len(g)].ok

\* C12: a call holds imx415->lock whenever it holds a copy of
\* imx415->cur_mode (the copy is taken after mutex_lock and dropped at
\* mutex_unlock), and the mode get_fmt or g_frame_interval answers with was
\* not replaced by set_fmt before the call took the lock.
C12_ModeReadUnderLock ==
    \A t \in Readers :
      /\ thr.mode[t] # 0 => thr.lock = t
      /\ thr.pc[t] = "unlock" => ~thr.stale[t]

\* C13: a detach leaves the session in Standby with clock, supplies and
\* reset line off; when the session was Streaming its first call is the
\* write of 1 to the standby register, and the power-off steps follow it.
C13_DetachStopsAndPowersOff ==
    [][ op' = "remove"
        => /\ ~streaming'
           /\ hw' = [ clk |-> 0, sup |-> 0, rst |-> 0 ]
           /\ streaming =>
                /\ Len(wlog') > 1
                /\ wlog'[1].rw = "w" /\ wlog'[1].reg = IMX415_REG_STANDBY
                /\ wlog'[1].val = 1
                /\ wlog'[2].rw = "clk" ]_vars

\* the calls of a log from its i-th on, as << rw, reg, val >>
CallsFrom(log, i) ==
    [ j \in 1..(Len(log) - i + 1) |->
        << log[i + j - 1].rw, log[i + j - 1].reg, log[i + j - 1].val >> ]

\* does sequence p start sequence q
IsPrefix(p, q) == Len(p) <= Len(q) /\ SubSeq(q, 1, Len(p)) = p

\* C14: wherever an operation enables the clock, the calls from there on
\* are: clock on, supplies on, reset asserted, write of the lane-mode
\* register, and (the write having succeeded) its read-back.  When the
\* clock enable fails the operation makes no further call; when the
\* supplies fail the one further call is the clock disable; in both cases
\* clock and supplies are as before, the reset line is where the operation
\* found it (where probe put it when it requested the line) and the error
\* is returned (to the caller of probe and start, to runtime PM otherwise).
C14_PowerOnOrder ==
    [][ \A i \in 1..Len(wlog') :
          (wlog'[i].rw = "clk" /\ wlog'[i].val = 1) =>
            LET tail == CallsFrom(wlog', i)
                laneval == IF nlanes' = 2 THEN 1 ELSE 3
                failed ==
                  /\ hw'.clk = hw.clk /\ hw'.sup = hw.sup
                  /\ op' # "probe" => hw'.rst = hw.rst
                  /\ op' \in { "probe", "start" } => ret' < 0
                  /\ op' \in { "start", "pm_work", "remove" } => pm'.error
            IN  IF ~wlog'[i].ok
                THEN tail = << << "clk", 0, 1 >> >> /\ failed
                ELSE IF ~wlog'[i + 1].ok
                THEN /\ tail = << << "clk", 0, 1 >>, << "sup", 0, 1 >>,
                                  << "clk", 0, 0 >> >>
                     /\ failed
                ELSE /\ IsPrefix(<< << "clk", 0, 1 >>, << "sup", 0, 1 >>,
                                    << "rst", 0, 1 >>,
                                    << "w", IMX415_REG_LANE_MODE, laneval >> >>,
                                 tail)
                     /\ wlog'[i + 3].ok =>
                          /\ wlog'[i + 4].rw = "r"
                          /\ wlog'[i + 4].reg = IMX415_REG_LANE_MODE ]_vars

\* C14 witness: the supplies failed to come on and the clock was disabled
\* again
C14_Witness ==
    \E i \in 1..Len(wlog) :
      /\ wlog[i].rw = "sup" /\ wlog[i].val = 1 /\ ~wlog[i].ok
      /\ i < Len(wlog) /\ wlog[i + 1].rw = "clk" /\ wlog[i + 1].val = 0
      /\ ret < 0 /\ hw.clk = 0

\* the write of the lane-mode register in a log and the read that follows
\* it: the set of indices of the write
LaneWrites(log) ==
    { i \in 1..Len(log) :
        log[i].rw = "w" /\ log[i].reg = IMX415_REG_LANE_MODE }

\* C15: a power-on writes 0x01 (2 lanes) or 0x03 (4 lanes) to the
\* lane-mode register and, the write having succeeded, reads the register
\* back next; whatever value the read returns, an operation in which no
\* call failed has powered the device on: the start succeeds and streams,
\* the probe goes on to read the chip ID and succeeds unless the chip ID
\* or the media registration stops it, and runtime PM records no error.
C15_LaneReadbackNotFatal ==
    \A i \in LaneWrites(wlog) :
      /\ wlog[i].val = IF nlanes = 2 THEN \H01 ELSE \H03
      /\ nlanes \in { 2, 4 }
      /\ wlog[i].ok =>
           /\ i < Len(wlog)
           /\ wlog[i + 1].rw = "r" /\ wlog[i + 1].reg = IMX415_REG_LANE_MODE
      /\ ~AnyFail(wlog) =>
           /\ ~pm.error
           /\ op = "start" => (ret = 0 /\ streaming)
           /\ op = "probe" =>
                /\ Len(wlog) >= i + 2
                /\ wlog[i + 2].rw = "r"
                /\ wlog[i + 2].reg = IMX415_REG_CHIP_ID
                /\ (arg.id = "none" /\ wlog[i + 2].val = IMX415_CHIP_ID)
                     => ret = 0

\* C15 witness: a start resumed the device, the lane-mode register read
\* back differently from what was written, and the start succeeded
C15_Witness ==
    /\ op = "start" /\ ret = 0 /\ streaming
    /\ \E i \in LaneWrites(wlog) :
         wlog[i].ok /\ wlog[i + 1].ok /\ wlog[i + 1].val # wlog[i].val

\* the reads of the chip-ID register in a log that failed or returned
\* something other than IMX415_CHIP_ID
BadIdentify(log) ==
    { i \in 1..Len(log) :
        /\ log[i].rw = "r" /\ log[i].reg = IMX415_REG_CHIP_ID
        /\ (~log[i].ok \/ log[i].val # IMX415_CHIP_ID) }

\* C16: a probe whose read of the chip-ID register fails or returns a
\* value other than 0xE0 returns an error and leaves no session; its last
\* calls are those of the power-off, after which clock, supplies and reset
\* line are off; and a session whose probe failed is never started.
C16_IdentifyGuardsAttach ==
    /\ life = "failed" => (op = "probe" /\ ret < 0 /\ ~streaming)
    /\ \A i \in BadIdentify(wlog) :
         /\ op = "probe" /\ ret < 0 /\ life = "failed"
         /\ Len(wlog) = i + 3
         /\ CallsFrom(wlog, i + 1)
              = << << "clk", 0, 0 >>, << "rst", 0, 0 >>, << "sup", 0, 0 >> >>
         /\ hw = [ clk |-> 0, sup |-> 0, rst |-> 0 ]

\* C16 witness: a probe has read a chip ID that is not 0xE0
C16_Witness ==
    \E i \in BadIdentify(wlog) : wlog[i].ok /\ life = "failed"

\* C17: a probe with a lane count other than 2 or 4 returns -EINVAL and
\* leaves no session, having made no call at all: clock and supplies were
\* not enabled, the reset line was not driven, no register was read or
\* written.
C17_BadLaneCountRejectedEarly ==
    (op = "probe" /\ arg.val \notin { 2, 4 })
      => /\ ret = -EINVAL
         /\ life = "failed"
         /\ wlog = << >>
         /\ hw = [ clk |-> 0, sup |-> 0, rst |-> 0 ]

\* C17 witness: a probe with 3 lanes has failed
C17_Witness == op = "probe" /\ arg.val = 3 /\ life = "failed"

\* the entries of a catalog whose format is the requested one, and among
\* them those nearest to the requested size
Matching(modes, f) == { i \in 1..Len(modes) : modes[i].bus_fmt = f.code }
Nearest(modes, f) ==
    { i \in Matching(modes, f) :
        \A j \in Matching(modes, f) :
          imx415_get_reso_dist(modes[i], f) <= imx415_get_reso_dist(modes[j], f) }

\* C18: imx415_find_best_fit returns the first of the catalog entries of
\* the requested format that are nearest to the requested size (by
\* |width difference| + |height difference|), and the first entry of the
\* catalog when none has the requested format; for catalogs of 1 to
\* MaxCatalog entries.
C18_BestFitIsNearestFirst ==
    op = "find_best_fit" =>
      LET n == Nearest(arg.id, arg.val)
      IN  IF n = {} THEN ret = 1
          ELSE ret \in n /\ \A i \in n : ret <= i

\* C19: in every state of a bound device the v-blank control's minimum is
\* 46 and its maximum is IMX415_VTS_MAX minus the height of the current
\* mode.
C19_VblankRange ==
    life = "bound" =>
      /\ vblank.min = 46
      /\ vblank.max = IMX415_VTS_MAX - supported_modes[cur_mode].height

\* C20: set_fmt of the active format makes the best fit the current mode,
\* sets cur_vts to its vts_def, makes the h-blank range the single value
\* hts_def - width and the v-blank range [46, IMX415_VTS_MAX - height] with
\* default vts_def - height, returns 0 and makes no call on the bus; the
\* streaming flag, runtime PM, the power lines, the control values and the
\* other controls stay as they were.
C20_SetFmtWritesNothing ==
    [][ op' = "set_fmt"
        => LET m == supported_modes[cur_mode']
           IN  /\ cur_mode' \in DOMAIN supported_modes
               /\ cur_vts' = m.vts_def
               /\ hblank' = Ctrl(m.hts_def - m.width, m.hts_def - m.width,
                                 m.hts_def - m.width)
               /\ vblank' = [ min |-> 46,
                              max |-> IMX415_VTS_MAX - m.height,
                              def |-> m.vts_def - m.height,
                              val |-> vblank.val ]
               /\ ret' = 0
               /\ wlog' = << >>
               /\ UNCHANGED << streaming, pm, hw, exposure, anal_a_gain,
                               hflip, vflip >> ]_vars

\* C20 witness: set_fmt was called on a Streaming, powered device whose
\* v-blank value is not the one cur_vts was reset to
C20_Witness ==
    /\ op = "set_fmt" /\ streaming /\ pm.status = "active"
    /\ vblank.val + supported_modes[cur_mode].height # cur_vts

\* is the i-th call of a log the write of val to the hold register
IsHold(log, i, val) ==
    /\ i \in 1..Len(log)
    /\ log[i].rw = "w" /\ log[i].reg = IMX415_GROUP_HOLD_REG
    /\ log[i].val = val

\* C21: when a setter of exposure, v-blank or analog gain writes the
\* control's registers, the call before the first sub-write is the write of
\* 1 to the hold register and the call after the last sub-write is the
\* write of 0 to it, whether or not a sub-write failed.
C21_GroupHoldBrackets ==
    (op = "set_ctrl" /\ arg.id \in { "exposure", "vblank", "anal_a_gain" })
      => LET at == { i \in 1..Len(wlog) :
                       wlog[i].rw = "w" /\ wlog[i].reg \in ControlRegs(arg.id) }
         IN  at # {} =>
               /\ \E i \in at : (\A j \in at : i <= j) /\ IsHold(wlog, i - 1, 1)
               /\ \E i \in at : (\A j \in at : j <= i) /\ IsHold(wlog, i + 1, 0)

\* the bit of byte x under the one-bit mask m
Bit(x, m) == (x \div m) % 2

\* C22: a flip setter that reaches the bus first reads the flip register.
\* When the read fails it is the only call, -EIO is returned and the
\* control keeps its value.  Otherwise exactly one call follows, the write
\* of the flip register with bit 0 (hflip) or bit 1 (vflip) at the value
\* asked for and every other bit as read; the setter returns 0 and stores
\* the value when that write succeeds, -EIO when it fails.
C22_FlipReadModifyWrite ==
    [][ (op' = "set_ctrl" /\ arg'.id \in { "hflip", "vflip" } /\ wlog' # << >>)
        => LET mask == IF arg'.id = "hflip" THEN 1 ELSE 2
               old == IF arg'.id = "hflip" THEN hflip ELSE vflip
               new == IF arg'.id = "hflip" THEN hflip' ELSE vflip'
           IN  /\ wlog'[1].rw = "r" /\ wlog'[1].reg = IMX415_FLIP_REG
               /\ IF ~wlog'[1].ok
                  THEN Len(wlog') = 1 /\ ret' = -EIO /\ new = old
                  ELSE /\ Len(wlog') = 2
                       /\ wlog'[2].rw = "w" /\ wlog'[2].reg = IMX415_FLIP_REG
                       /\ \A b \in { 1, 2, 4, 8, 16, 32, 64, 128 } :
                            Bit(wlog'[2].val, b)
                              = IF b = mask THEN arg'.val
                                ELSE Bit(wlog'[1].val, b)
                       /\ wlog'[2].val < 256
                       /\ IF wlog'[2].ok
                          THEN ret' = 0 /\ new.val = arg'.val
                          ELSE ret' = -EIO /\ new = old ]_vars

\* C22 witness: vflip was set on a register that read 0x04, and 0x06 was
\* written back
C22_Witness ==
    /\ op = "set_ctrl" /\ arg.id = "vflip" /\ arg.val = 1 /\ ret = 0
    /\ Len(wlog) = 2 /\ wlog[1].val = \H04 /\ wlog[2].val = \H06

C24_PowerReferencesBalanced ==
    life = "bound" => pm.usage = (IF streaming THEN 1 ELSE 0)

\* C25: after any sequence of select_mode, set_vblank and set_exposure, the
\* three bytes an exposure write puts in the SHR0 registers are the low,
\* middle and high byte of shr0 = cur_vts - e, which has not wrapped and
\* lies in [4, cur_vts - 8].
C25_Shr0NeverWraps ==
    (op = "set_ctrl" /\ arg.id = "exposure" /\ Len(wlog) = 3)
        => LET shr0 == wlog[1].val + 256 * wlog[2].val + 65536 * wlog[3].val
           IN  /\ wlog[1].reg = IMX415_LF_EXPO_REG_L
               /\ wlog[2].reg = IMX415_LF_EXPO_REG_M
               /\ wlog[3].reg = IMX415_LF_EXPO_REG_H
               /\ 4 <= shr0
               /\ shr0 <= cur_vts - 8

\* the calls of the power-on that starts at call i of a log: the clock
\* enable, the supplies, the reset line, the lane-mode write and its
\* read-back, as far as the power-on got
PowerOnCalls(log, i) ==
    { j \in i..Len(log) :
        \/ j = i
        \/ j = i + 1 /\ log[j].rw = "sup" /\ log[j].val = 1
        \/ j = i + 2 /\ log[j].rw = "rst" /\ log[j].val = 1
        \/ j = i + 3 /\ log[i + 2].rw = "rst"
                     /\ log[j].rw = "w" /\ log[j].reg = IMX415_REG_LANE_MODE
        \/ j = i + 4 /\ log[i + 2].rw = "rst" /\ log[i + 3].ok
                     /\ log[j].rw = "r" /\ log[j].reg = IMX415_REG_LANE_MODE }

\* C26: whenever a power-on returns an error (the clock, the supplies, the
\* lane-mode write or its read-back failed), the operation that ran it
\* leaves the clock and the supplies disabled as it found them, and a reset
\* line the power-on had asserted is deasserted again.
C26_FailedPowerOnUndone ==
    [][ \A i \in 1..Len(wlog') :
          ( /\ wlog'[i].rw = "clk" /\ wlog'[i].val = 1
            /\ \E j \in PowerOnCalls(wlog', i) : ~wlog'[j].ok )
          => /\ hw'.clk = hw.clk
             /\ hw'.sup = hw.sup
             /\ (i + 2) \in PowerOnCalls(wlog', i) => hw'.rst = 0 ]_vars

\* C27: imx415_write_array writes the entries of the memory it is handed as
\* single-byte writes in order and stops at the first failing write.  In a
\* start, the walk of the common table (up to the first REG_NULL that
\* follows it) and the walk of the mode's table write a prefix of their
\* entries in order; a failed write is the last write of the start and the
\* start returns its error; when no call fails every entry before each
\* sentinel is written exactly once, followed by the standby clear.
C27_WriteArrayStopsAtFailure ==
    op = "start" =>
      LET w == TableWrites(wlog)
      IN  \E after \in Layouts :
            LET e == BeforeSentinel(common_regs_memory(after))
                       \o BeforeSentinel(supported_modes[cur_mode].reg_list)
            IN  /\ Len(w) <= Len(e) + 1
                /\ \A i \in 1..Len(w) :
                     /\ w[i].val \in 0..255
                     /\ i <= Len(e) =>
                          w[i].reg = e[i][1] /\ w[i].val = e[i][2]
                     /\ ~w[i].ok => (i = Len(w) /\ ret = -EIO)
                /\ (wlog # << >> /\ ~AnyFail(wlog)) => Len(w) = Len(e) + 1

\* C27 witness: a start stopped at a failed write of the mode's table, the
\* common table having been written before it
C27_Witness ==
    /\ op = "start" /\ ret = -EIO /\ wlog # << >>
    /\ Len(TableWrites(wlog)) > Len(imx415_common_regs)
    /\ wlog[Len(wlog)].rw = "w" /\ ~wlog[Len(wlog)].ok
    /\ wlog[Len(wlog)].reg # IMX415_REG_STANDBY

====
